---- MODULE Spec2Model ----
(***************************************************************************)
(* Model of the leftunder pantry tracker backend: the Api class of         *)
(* src/api.py over the two hosted tables User and FoodItem, the /start     *)
(* handler of src/bot.py, and the date arithmetic of src/utils.py.         *)
(*                                                                         *)
(* Time is counted in whole hours.  A datetime is an integer number of     *)
(* hours; an Optional value is the empty sequence (None) or a one-element  *)
(* sequence.  Every Api coroutine is one action: the awaits inside one     *)
(* request are taken at one instant of the clock.  The /start handler is   *)
(* split at its awaits, because the bot runs with concurrent updates.      *)
(***************************************************************************)
EXTENDS Integers, Sequences, FiniteSets, TLC

\* ------------------------------------------------------------------ bounds
MaxItems == 2      \* rows the FoodItem table may hold
MaxTicks == 1      \* days the clock may advance
MaxStarts == 2     \* /start updates delivered to the bot
MaxRuns == 2       \* times the scheduler fires the cron job
MaxPhotos == 2     \* photo updates delivered to the bot
MaxCallers == 4    \* requests that call get_supabase_client concurrently

\* ------------------------------------------------------- program constants
REMINDER_DELTA == 5           \* api.py process_image: days before expiry
UTILS_REMINDER_DAYS == 5      \* utils.py calculate_reminder_date: days before expiry
NEXT_REMINDER_HOURS == 23     \* api.py sync_reminder_date_food_items
ALL_USERS == 0                \* fast_api.py: default telegram_user_id of the sweep
MAX_RETRIES == 5              \* cron_server/app.py make_get_request_with_retry
INITIAL_DELAY == 1            \* cron_server/app.py: first sleep, in seconds

\* --------------------------------------------------------------- datatypes
None == <<>>
Some(x) == <<x>>
Days(n) == n * 24

\* telegram chats that talk to the bot
Chats == {11, 12, 13}

\* the chats whose requests reach the Api: a registered one and chat 13, which
\* never sent /start
ApiChats == {12, 13}

\* str(e) of an exception raised by a vendor call
EXC == "exception"

\* The descriptive fields of a food item, as the clients and the LLM send them.
DetailsA ==
  [name |-> "apple", description |-> "red apple", category |-> "Fruits",
   storage_instructions |-> "fridge", quantity |-> 3, unit |-> "piece"]
DetailsB ==
  [name |-> "milk", description |-> "fresh milk", category |-> "Dairy",
   storage_instructions |-> "chilled", quantity |-> 1, unit |-> "l"]

\* datetime.isoformat(): the ISO-8601 text of a datetime
isoformat(d) == [iso |-> d]
\* the store parsing ISO-8601 text into a timestamp column, and pydantic
\* parsing the column back into a datetime
timestamp(s) == s.iso

\* ------------------------------------------------------------------- state
VARIABLES
  users,       \* table User, rows in insertion order: [id, telegram_user_id]
  foodItems,   \* table FoodItem, rows in insertion order (id = position)
  supabase,    \* Api._supabase is not None
  now,         \* the wall clock, in hours
  starts,      \* the /start handlers in flight: [pc, chat, found, lookup, message]
  photos,      \* the photo handlers in flight: [pc, chat, llm, result, log]
  restSupabase, \* api_instance._supabase of the REST server is not None
  clientCalls, \* concurrent calls of get_supabase_client: [client, created, callers]
  cron,        \* the cron trigger: [pc, attempt, delay, runs, log]
  last         \* the last Api request and its response

vars == <<users, foodItems, supabase, now, starts, restSupabase, photos, clientCalls, cron, last>>

Starts == 1 .. MaxStarts

\* A row of User
UserRow(id, tid) == [id |-> id, telegram_user_id |-> tid]

\* The hosted tables outlive the process: the Api starts over the User table
\* that earlier /start updates of chats 11 and 12 filled.  Chat 13 never sent
\* /start.
RegisteredUsers == <<UserRow(1, 11), UserRow(2, 12)>>

IdleStarts ==
  [h \in Starts |-> [pc |-> "idle", chat |-> 0, found |-> FALSE, lookup |-> "none",
                     message |-> "none"]]

Photos == 1 .. MaxPhotos

\* a result message: its text, and the number of items it reports
Reply(text, n) == [text |-> text, n |-> n]

IdlePhotos ==
  [h \in Photos |-> [pc |-> "idle", chat |-> 0, llm |-> <<>>,
                     result |-> Reply("none", 0), log |-> <<>>]]

Callers == 1 .. MaxCallers

\* An Api whose _supabase is None (client 0) and that no request has called.
\* Clients are numbered in the order acreate_client returns them.
IdleClientCalls ==
  [client |-> 0, created |-> 0,
   callers |-> [h \in Callers |-> [pc |-> "idle", got |-> 0]]]

\* the cron job before the scheduler has fired it
IdleCron == [pc |-> "idle", attempt |-> 0, delay |-> 0, runs |-> 0, log |-> <<>>]

NoRequest ==
  [op |-> "none", tid |-> 0, at |-> 0, vendor |-> "ok", raised |-> FALSE,
   success |-> TRUE, message |-> "none"]

Init ==
  /\ users = RegisteredUsers
  /\ foodItems = <<>>
  /\ supabase = FALSE
  /\ now = 0
  /\ starts = IdleStarts
  /\ photos = IdlePhotos
  /\ restSupabase = FALSE
  /\ clientCalls = IdleClientCalls
  /\ cron = IdleCron
  /\ last = NoRequest

\* The bot over an empty User table.
InitStart ==
  /\ users = <<>>
  /\ foodItems = <<>>
  /\ supabase = FALSE
  /\ now = 0
  /\ starts = IdleStarts
  /\ photos = IdlePhotos
  /\ restSupabase = FALSE
  /\ clientCalls = IdleClientCalls
  /\ cron = IdleCron
  /\ last = NoRequest

\* ------------------------------------------------------------ responses
\* `last` keeps the operation, its telegram_user_id, the time, and which vendor
\* call raised inside it: "ok" (none), "client" (acreate_client), "lookup" (the
\* select on User), "write" (the query on FoodItem), "telegram" (the alert loop).
\*
\* A request that ended with an exception leaving the coroutine.
Raise(op, tid, vendor) ==
  [op |-> op, tid |-> tid, at |-> now, vendor |-> vendor, raised |-> TRUE,
   success |-> FALSE, message |-> EXC]

\* BaseResponse(success, message) returned by operation op.
Response(op, tid, vendor, success, message) ==
  [op |-> op, tid |-> tid, at |-> now, vendor |-> vendor, raised |-> FALSE,
   success |-> success, message |-> message]

\* ------------------------------------------------------------ Api: client
\* Api.get_supabase_client: the client is created on first use; acreate_client
\* is awaited outside every try block, so its failure leaves the operation.
\* The outcomes of the call: "ok" or "raise".
ClientOutcomes == IF supabase THEN {"ok"} ELSE {"ok", "raise"}

get_supabase_client(outcome) == supabase \/ outcome = "ok"

\* Api.get_supabase_client, one step per resumption of the coroutine.  The
\* test `self._supabase is None` and the await of acreate_client are separate
\* steps: other requests run while acreate_client is awaited.
\*
\* the call up to its first await, or to its return when the client is there
ClientCheck(h) ==
  /\ clientCalls.callers[h].pc = "idle"
  /\ clientCalls' =
       IF clientCalls.client = 0
         THEN [clientCalls EXCEPT !.callers[h].pc = "creating"]
         ELSE [clientCalls EXCEPT !.callers[h] = [pc |-> "returned", got |-> clientCalls.client]]
  /\ UNCHANGED <<users, foodItems, supabase, now, starts, restSupabase, photos, cron, last>>

\* acreate_client returns a new client: it is assigned to self._supabase and
\* returned; or it raises, and the exception leaves the coroutine
ClientCreate(h) ==
  /\ clientCalls.callers[h].pc = "creating"
  /\ \E outcome \in {"ok", "raise"} :
       clientCalls' =
         IF outcome = "raise"
           THEN [clientCalls EXCEPT !.callers[h].pc = "raised"]
           ELSE LET new == clientCalls.created + 1 IN
                [clientCalls EXCEPT !.client = new, !.created = new,
                                    !.callers[h] = [pc |-> "returned", got |-> new]]
  /\ UNCHANGED <<users, foodItems, supabase, now, starts, restSupabase, photos, cron, last>>

\* ------------------------------------------------------------- Api: users
\* rows of User with this telegram_user_id, in the order the store returns them
UserRows(tid) == SelectSeq(users, LAMBDA u : u.telegram_user_id = tid)

get_user_WrongMessage(tid, dbFails) ==
  IF dbFails
    THEN [success |-> FALSE, message |-> "User not found", user |-> None]
    ELSE IF UserRows(tid) = <<>>
      THEN [success |-> FALSE, message |-> "User not found", user |-> None]
      ELSE [success |-> TRUE, message |-> "User found", user |-> Some(UserRows(tid)[1])]

\* Api.get_user: GetUserResponse
get_user(tid, dbFails) ==
  IF dbFails
    THEN [success |-> FALSE, message |-> EXC, user |-> None]
    ELSE IF UserRows(tid) = <<>>
      THEN [success |-> FALSE, message |-> "User not found", user |-> None]
      ELSE [success |-> TRUE, message |-> "User found", user |-> Some(UserRows(tid)[1])]

\* The row the store makes of RegisterUserPayload: the id is generated.  The
\* insert names no conflict target and the code checks nothing about the rows
\* already there.
NewUser(tid) == [id |-> Len(users) + 1, telegram_user_id |-> tid]

\* Api.register_user: RegisterUserResponse and the table after it
register_user(tid, dbFails) ==
  IF dbFails
    THEN [success |-> FALSE, message |-> EXC, user |-> None, table |-> users]
    ELSE [success |-> TRUE, message |-> "User registered", user |-> Some(NewUser(tid)),
          table |-> Append(users, NewUser(tid))]

\* GET /users/telegram_user_id/{id}
GetUser(tid, client, dbFails) ==
  /\ IF client = "raise"
       THEN /\ last' = Raise("get_user", tid, "client")
            /\ UNCHANGED supabase
       ELSE LET r == get_user(tid, dbFails) IN
            /\ supabase' = get_supabase_client(client)
            /\ last' = Response("get_user", tid, IF dbFails THEN "lookup" ELSE "ok",
                                r.success, r.message) @@ [user |-> r.user]
  /\ UNCHANGED <<users, foodItems, now, starts, restSupabase, photos, clientCalls, cron>>

\* ------------------------------------------------------------ bot: /start
START_MESSAGE_EXISITING == "welcome back"
START_MESSAGE_NEW == "signed up"

\* start, up to the return of `await api.get_user(...)`
StartLookup(h, c, client, dbFails) ==
  /\ starts[h].pc = "idle"
  /\ IF client = "raise"
       THEN /\ starts' = [starts EXCEPT ![h] = [@ EXCEPT !.pc = "error", !.chat = c]]
            /\ last' = Raise("get_user", c, "client")
            /\ UNCHANGED supabase
       ELSE LET r == get_user(c, dbFails) IN
            /\ supabase' = get_supabase_client(client)
            /\ starts' = [starts EXCEPT ![h] =
                 [pc |-> IF r.user = None THEN "register" ELSE "send", chat |-> c,
                  found |-> r.user # None, lookup |-> r.message,
                  message |-> START_MESSAGE_EXISITING]]
            /\ last' = Response("get_user", c, IF dbFails THEN "lookup" ELSE "ok", r.success, r.message)
  /\ UNCHANGED <<users, foodItems, now, photos, restSupabase, clientCalls, cron>>

\* start, `await api.register_user(...)`: its response is not looked at
StartRegister(h, dbFails) ==
  /\ starts[h].pc = "register"
  /\ LET r == register_user(starts[h].chat, dbFails) IN
       /\ users' = r.table
       /\ last' = Response("register_user", starts[h].chat,
                           IF dbFails THEN "write" ELSE "ok", r.success, r.message)
  /\ starts' = [starts EXCEPT ![h] = [@ EXCEPT !.pc = "send", !.message = START_MESSAGE_NEW]]
  /\ UNCHANGED <<foodItems, supabase, now, photos, restSupabase, clientCalls, cron>>

\* start, `await context.bot.send_message(...)`
StartSend(h) ==
  /\ starts[h].pc = "send"
  /\ starts' = [starts EXCEPT ![h] = [@ EXCEPT !.pc = "done"]]
  /\ UNCHANGED <<users, foodItems, supabase, now, photos, restSupabase, clientCalls, cron, last>>

Start ==
  \E h \in Starts :
    \/ \E c \in Chats \ {13}, client \in ClientOutcomes, dbFails \in BOOLEAN :
         StartLookup(h, c, client, dbFails)
    \/ \E dbFails \in BOOLEAN : StartRegister(h, dbFails)
    \/ StartSend(h)

\* -------------------------------------------------------- request inputs
\* FoodItemBase objects a client may put in a CreateFoodItemPayload: the
\* expiry date and the reminder date are the client's.
CreateItems ==
  << DetailsA @@ [expiry_date |-> Some(240), shelf_life_days |-> None, reminder_date |-> 120],
     DetailsB @@ [expiry_date |-> None, shelf_life_days |-> Some(2), reminder_date |-> 7] >>

\* The items of llm_response.food_items, with the fields process_image reads
\* of them.  (src/llm.py is of another revision: its invoke_chain takes other
\* arguments and its FoodItem names the unit `units`.)
LlmItems ==
  << [food_name |-> "apple", description |-> "red apple", category |-> "Fruits",
     storage_instructions |-> "fridge", quantity |-> 3, unit |-> "piece",
     expiry_date |-> Some(12), shelf_life_days |-> None],
    [food_name |-> "milk", description |-> "fresh milk", category |-> "Dairy",
     storage_instructions |-> "chilled", quantity |-> 1, unit |-> "l",
     expiry_date |-> None, shelf_life_days |-> Some(2)] >>

\* the payloads drawn from list: its first item alone, its first two, ...
Payloads(list) == { SubSeq(list, 1, n) : n \in 1 .. Len(list) }

\* the payloads whose rows still fit the table
Batches(list) == { b \in Payloads(list) : Len(foodItems) + Len(b) <= MaxItems }

IMAGE_URL == "public-assets/photo.jpg"

\* Which store call of one request raises: none, the user lookup, or the write.
DbOutcomes == {"ok", "lookup", "write"}

\* the vendor call that raised in a request with store outcome db: the query
\* on FoodItem is reached only when the lookup found the user
Vendor(tid, db) ==
  IF db = "lookup" THEN "lookup"
  ELSE IF db = "write" /\ UserRows(tid) # <<>> THEN "write"
  ELSE "ok"

\* --------------------------------------------------------- utils.py dates
\* the expiry date calculate_reminder_date and process_image leave on the item
ExpiryOrShelfLife(item, t) ==
  IF item.expiry_date = None
    THEN t + Days(IF item.shelf_life_days = None THEN 0 ELSE item.shelf_life_days[1])
    ELSE item.expiry_date[1]

calculate_reminder_date_NoDelta(item, t) == ExpiryOrShelfLife(item, t)

\* utils.calculate_reminder_date
calculate_reminder_date(item, t) == ExpiryOrShelfLife(item, t) - Days(UTILS_REMINDER_DAYS)

\* --------------------------------------------------------- Api: creation
\* `x.isoformat() if x else None`, as the store keeps it
StoredDate(opt) == IF opt # None THEN Some(timestamp(isoformat(opt[1]))) ELSE None

FoodItemPayloadData_TelegramId(item, id, user, image_url) ==
  [id |-> id, user_id |-> user.telegram_user_id,
   name |-> item.name, description |-> item.description, category |-> item.category,
   storage_instructions |-> item.storage_instructions,
   quantity |-> item.quantity, unit |-> item.unit,
   expiry_date |-> StoredDate(item.expiry_date),
   shelf_life_days |-> item.shelf_life_days,
   reminder_date |-> Some(timestamp(isoformat(item.reminder_date))),
   image_url |-> image_url, consumed |-> FALSE, discarded |-> FALSE]

FoodItemPayloadData_Recomputed(item, id, user, image_url) ==
  [id |-> id, user_id |-> user.id,
   name |-> item.name, description |-> item.description, category |-> item.category,
   storage_instructions |-> item.storage_instructions,
   quantity |-> item.quantity, unit |-> item.unit,
   expiry_date |-> StoredDate(item.expiry_date),
   shelf_life_days |-> item.shelf_life_days,
   reminder_date |-> Some(timestamp(isoformat(calculate_reminder_date(item, now)))),
   image_url |-> image_url, consumed |-> FALSE, discarded |-> FALSE]

\* the row _create_food_items builds of one FoodItemBase, with the id the
\* store gives it
FoodItemPayloadData(item, id, user, image_url) ==
  [id |-> id, user_id |-> user.id,
   name |-> item.name, description |-> item.description, category |-> item.category,
   storage_instructions |-> item.storage_instructions,
   quantity |-> item.quantity, unit |-> item.unit,
   expiry_date |-> StoredDate(item.expiry_date),
   shelf_life_days |-> item.shelf_life_days,
   reminder_date |-> Some(timestamp(isoformat(item.reminder_date))),
   image_url |-> image_url, consumed |-> FALSE, discarded |-> FALSE]

create_food_items_IgnoreWriteError(tid, image_url, items, db) ==
  LET user == get_user(tid, db = "lookup").user
  IN  IF user = None
        THEN [success |-> FALSE, message |-> "User not found", food_items |-> <<>>,
              table |-> foodItems]
        ELSE [success |-> TRUE, message |-> "Food item created", food_items |-> <<>>,
              table |-> foodItems]

\* Api._create_food_items: CreateFoodItemResponse and the table after it.
\* The rows go to the store in one insert.
create_food_items(tid, image_url, items, db) ==
  LET user == get_user(tid, db = "lookup").user
      rows == [k \in 1 .. Len(items) |->
                 FoodItemPayloadData(items[k], Len(foodItems) + k, user[1], image_url)]
  IN  IF user = None
        THEN [success |-> FALSE, message |-> "User not found", food_items |-> <<>>,
              table |-> foodItems]
        ELSE IF db = "write"
          THEN [success |-> FALSE, message |-> EXC, food_items |-> <<>>, table |-> foodItems]
          ELSE [success |-> TRUE, message |-> "Food item created", food_items |-> rows,
                table |-> foodItems \o rows]

\* Api._create_food_items called with a client's CreateFoodItemPayload
CreateFoodItems(tid, items, client, db) ==
  /\ IF client = "raise"
       THEN /\ last' = Raise("create", tid, "client")
            /\ UNCHANGED <<foodItems, supabase>>
       ELSE LET r == create_food_items(tid, IMAGE_URL, items, db) IN
            /\ supabase' = get_supabase_client(client)
            /\ foodItems' = r.table
            /\ last' = Response("create", tid, Vendor(tid, db), r.success, r.message)
                         @@ [food_items |-> r.food_items]
                         @@ (IF r.success THEN [payload |-> items] ELSE <<>>)
  /\ UNCHANGED <<users, now, starts, restSupabase, photos, clientCalls, cron>>

\* ----------------------------------------------------- Api: process_image
ExtractedPayload_TwoDays(f, t) ==
  [name |-> f.food_name, description |-> f.description, category |-> f.category,
   storage_instructions |-> f.storage_instructions, quantity |-> f.quantity,
   unit |-> f.unit,
   expiry_date |-> Some(ExpiryOrShelfLife(f, t)),
   shelf_life_days |-> None,
   reminder_date |-> ExpiryOrShelfLife(f, t) - Days(2)]

\* the FoodItemBase process_image makes of one extracted item
ExtractedPayload(f, t) ==
  [name |-> f.food_name, description |-> f.description, category |-> f.category,
   storage_instructions |-> f.storage_instructions, quantity |-> f.quantity,
   unit |-> f.unit,
   expiry_date |-> Some(ExpiryOrShelfLife(f, t)),
   shelf_life_days |-> None,
   reminder_date |-> ExpiryOrShelfLife(f, t) - Days(REMINDER_DELTA)]

LLM_ERROR == "An error occurred while processing the image, please try again."
NO_FOOD == "No food items detected in the image."
SAVE_FAILED == "Process Image and Create food items failed"
FOUND == "Process Image food items success"

\* Api.process_image.  llm is what llm.invoke_chain returned: None after an
\* error, or the list of extracted items.
ProcessImage(tid, llm, client, db) ==
  /\ IF llm = None
       THEN /\ last' = Response("process_image", tid, "ok", FALSE, LLM_ERROR)
            /\ UNCHANGED <<foodItems, supabase>>
       ELSE IF Len(llm[1]) = 0
         THEN /\ last' = Response("process_image", tid, "ok", TRUE, NO_FOOD)
              /\ UNCHANGED <<foodItems, supabase>>
         ELSE IF client = "raise"
           THEN /\ last' = Raise("process_image", tid, "client")
                /\ UNCHANGED <<foodItems, supabase>>
           ELSE LET payloads == [k \in 1 .. Len(llm[1]) |-> ExtractedPayload(llm[1][k], now)]
                    r == create_food_items(tid, IMAGE_URL, payloads, db)
                IN  /\ supabase' = get_supabase_client(client)
                    /\ foodItems' = r.table
                    /\ last' = Response("process_image", tid, Vendor(tid, db), r.success,
                                     IF r.success THEN FOUND ELSE SAVE_FAILED)
                                 @@ [food_items |-> r.food_items]
                                 @@ (IF r.success THEN [llm |-> llm[1]] ELSE <<>>)
  /\ UNCHANGED <<users, now, starts, restSupabase, photos, clientCalls, cron>>

\* ----------------------------------------------------------- bot: photos
\* The photo handler, one step per awaited call.  post_init stores an
\* aio_session in bot_data, so the handler posts to the REST server, whose Api
\* (api_instance) runs process_image; the server's steps are the awaits of
\* process_image.  log is the order in which the steps of one photo happened.
\* the fallback text of the handler is MarkdownV2, the upload error is plain
ERROR_REPLY == Reply("Error processing image\\. Please try again\\.", 0)
UPLOAD_ERROR_REPLY == Reply("Error processing image. Please try again.", 0)
SAVE_SORRY == "Sorry, something went wrong while saving these food items to the pantry"

TelegramOutcomes == {"ok", "raise"}

\* get_supabase_client of the REST server's Api
RestClientOutcomes == IF restSupabase THEN {"ok"} ELSE {"ok", "raise"}

\* what llm.invoke_chain may return: None, no items, or items that fit the table
LlmResponses ==
  {None, Some(<<>>)} \cup { Some(b) : b \in Batches(LlmItems) }

Step(h, pc, events) ==
  [photos EXCEPT ![h].pc = pc, ![h].log = photos[h].log \o events]

StepResult(h, pc, events, result) ==
  [photos EXCEPT ![h].pc = pc, ![h].log = photos[h].log \o events,
                 ![h].result = result]

\* processed_message of process_image once _create_food_items has answered
ProcessedAfterInsert_AlwaysFound(success, n) == Reply("Found food items", n)

ProcessedAfterInsert(success, n) ==
  IF success THEN Reply("Found food items", n) ELSE Reply(SAVE_SORRY, 0)

\* the update arrives; the loader message is sent in reply to it
PhotoLoader(h) ==
  /\ photos[h].pc = "idle"
  /\ \A g \in Photos : g < h => photos[g].pc # "idle"
  /\ \E chat \in ApiChats, tg \in TelegramOutcomes :
       photos' = IF tg = "raise"
                   THEN [photos EXCEPT ![h].pc = "raised", ![h].chat = chat]
                   ELSE [photos EXCEPT ![h].pc = "upload", ![h].chat = chat,
                                       ![h].log = <<"loader">>]
  /\ UNCHANGED <<users, foodItems, supabase, now, starts, restSupabase, clientCalls, cron, last>>

\* get_file, download_as_bytearray, api.get_supabase_client, bucket.upload; a
\* failed upload is answered with an error reply and ends the handler
PhotoUpload(h) ==
  /\ photos[h].pc = "upload"
  /\ \E client \in ClientOutcomes, upload \in {"ok", "fail"}, tg \in TelegramOutcomes :
       IF client = "raise"
         THEN /\ photos' = Step(h, "raised", <<>>)
              /\ UNCHANGED supabase
         ELSE /\ supabase' = get_supabase_client(client)
              /\ photos' =
                   IF upload = "ok" THEN Step(h, "post", <<"upload">>)
                   ELSE IF tg = "raise" THEN Step(h, "raised", <<>>)
                   ELSE StepResult(h, "done", <<"reply">>, UPLOAD_ERROR_REPLY)
  /\ UNCHANGED <<users, foodItems, now, starts, restSupabase, clientCalls, cron, last>>

\* aio_session.post("/process-image"): the request reaches process_image of
\* the server, or it fails and the handler falls back to the error text
PhotoPost(h) ==
  /\ photos[h].pc = "post"
  /\ \E served \in BOOLEAN :
       photos' = IF served THEN Step(h, "llm", <<"llm_call">>)
                 ELSE StepResult(h, "delete_loader", <<>>, ERROR_REPLY)
  /\ UNCHANGED <<users, foodItems, supabase, now, starts, restSupabase, clientCalls, cron, last>>

\* process_image: llm.invoke_chain returns
PhotoLlm(h) ==
  /\ photos[h].pc = "llm"
  /\ \E llm \in LlmResponses :
       photos' =
         IF llm = None
           THEN StepResult(h, "delete_loader", <<"llm_return">>, Reply(LLM_ERROR, 0))
           ELSE IF Len(llm[1]) = 0
             THEN StepResult(h, "delete_loader", <<"llm_return">>, Reply(NO_FOOD, 0))
             ELSE [Step(h, "insert", <<"llm_return">>) EXCEPT ![h].llm = llm[1]]
  /\ UNCHANGED <<users, foodItems, supabase, now, starts, restSupabase, clientCalls, cron, last>>

\* process_image: _create_food_items answers, and the result message is made;
\* an exception leaving the server reaches the handler as a failed request
PhotoInsert(h) ==
  /\ photos[h].pc = "insert"
  /\ Len(foodItems) + Len(photos[h].llm) <= MaxItems
  /\ \E client \in RestClientOutcomes, db \in DbOutcomes :
       IF client = "raise"
         THEN /\ photos' = StepResult(h, "delete_loader", <<"create_call">>, ERROR_REPLY)
              /\ UNCHANGED <<foodItems, restSupabase>>
         ELSE LET items == photos[h].llm
                  payloads == [k \in 1 .. Len(items) |-> ExtractedPayload(items[k], now)]
                  r == create_food_items(photos[h].chat, IMAGE_URL, payloads, db)
              IN  /\ restSupabase' = TRUE
                  /\ foodItems' = r.table
                  /\ photos' = StepResult(h, "delete_loader",
                                 <<"create_call",
                                   IF r.success THEN "insert_ok" ELSE "insert_failed">>,
                                 ProcessedAfterInsert(r.success, Len(items)))
  /\ UNCHANGED <<users, supabase, now, starts, clientCalls, cron, last>>

\* bot.delete_message(loader_message)
PhotoDeleteLoader(h) ==
  /\ photos[h].pc = "delete_loader"
  /\ \E tg \in TelegramOutcomes :
       photos' = IF tg = "raise" THEN Step(h, "raised", <<>>)
                 ELSE Step(h, "send", <<"loader_deleted">>)
  /\ UNCHANGED <<users, foodItems, supabase, now, starts, restSupabase, clientCalls, cron, last>>

\* bot.send_message(results_message)
PhotoSend(h) ==
  /\ photos[h].pc = "send"
  /\ \E tg \in TelegramOutcomes :
       photos' = IF tg = "raise" THEN Step(h, "raised", <<>>)
                 ELSE Step(h, "done", <<"reply">>)
  /\ UNCHANGED <<users, foodItems, supabase, now, starts, restSupabase, clientCalls, cron, last>>

\* ------------------------------------------------------------ Api: reads
\* A query returns the rows of FoodItem it selects in table order.
EqUserId_Any(f, user) == TRUE

\* `.eq("user_id", user.id)`
EqUserId(f, user) == f.user_id = user.id

\* Api.read_food_items_for_user
ReadFoodItemsForUser(tid, client, db) ==
  /\ IF client = "raise"
       THEN /\ last' = Raise("read", tid, "client")
            /\ UNCHANGED supabase
       ELSE LET user == get_user(tid, db = "lookup").user
                rows == SelectSeq(foodItems, LAMBDA f : EqUserId(f, user[1]))
            IN  /\ supabase' = get_supabase_client(client)
                /\ last' =
                     IF user = None
                       THEN Response("read", tid, Vendor(tid, db), FALSE, "User not found") @@ [food_items |-> <<>>]
                       ELSE IF db = "write"
                         THEN Response("read", tid, "write", FALSE, EXC) @@ [food_items |-> <<>>]
                         ELSE Response("read", tid, "ok", TRUE, "Food items read successfully")
                                @@ [food_items |-> rows]
  /\ UNCHANGED <<users, foodItems, now, starts, restSupabase, photos, clientCalls, cron>>

\* The rows the query of read_food_items_for_user_by_status selects at time t:
\* `.lt("expiry_date", now)` when is_expired is 1, `.gt("expiry_date", now)`
\* otherwise; a null expiry_date is neither less nor greater than anything.
StatusRows(table, user, is_expired, is_consumed, is_discarded, t) ==
  SelectSeq(table, LAMBDA f :
    /\ EqUserId(f, user)
    /\ f.consumed = (is_consumed = 1)
    /\ f.discarded = (is_discarded = 1)
    /\ f.expiry_date # None
    /\ IF is_expired = 1 THEN f.expiry_date[1] < t
                         ELSE f.expiry_date[1] > t)

\* Api.read_food_items_for_user_by_status: the flags are 1 for true
ReadFoodItemsForUserByStatus(tid, is_expired, is_consumed, is_discarded, client, db) ==
  /\ IF client = "raise"
       THEN /\ last' = Raise("read_by_status", tid, "client")
            /\ UNCHANGED supabase
       ELSE LET user == get_user(tid, db = "lookup").user
                rows == StatusRows(foodItems, user[1], is_expired, is_consumed, is_discarded, now)
            IN  /\ supabase' = get_supabase_client(client)
                /\ last' =
                     IF user = None
                       THEN Response("read_by_status", tid, Vendor(tid, db), FALSE, "User not found")
                              @@ [food_items |-> <<>>]
                       ELSE IF db = "write"
                         THEN Response("read_by_status", tid, "write", FALSE, EXC) @@ [food_items |-> <<>>]
                         ELSE Response("read_by_status", tid, "ok", TRUE, "Food items read successfully")
                                @@ [food_items |-> rows,
                                    flags |-> <<is_expired, is_consumed, is_discarded>>]
  /\ UNCHANGED <<users, foodItems, now, starts, restSupabase, photos, clientCalls, cron>>

\* ---------------------------------------------------------- Api: updates
\* FoodItemUpdate objects of an UpdateFoodItemPayload, less the id
UpdateItems ==
  << [id |-> 1] @@ DetailsB @@ [expiry_date |-> Some(240), shelf_life_days |-> None,
                               consumed |-> FALSE, discarded |-> FALSE],
    [id |-> MaxItems] @@ DetailsA @@ [expiry_date |-> None, shelf_life_days |-> None,
                                      consumed |-> FALSE, discarded |-> TRUE] >>

\* days_to_expiry of a sweep: the default of the endpoint, which /reminder sends too
SweepDays == {5}

\* FoodItemConsumedDiscarded objects: the first row, and an id no row has
MarkItems ==
  << [id |-> 1, consumed |-> TRUE, discarded |-> FALSE],
     [id |-> MaxItems + 1, consumed |-> FALSE, discarded |-> TRUE] >>

\* the consumed and discarded flags a read by status asks for
StatusFlags == { <<0, 0>> }

UpdateWhereId_OnlyMatching(table, id, data) ==
  SelectSeq([i \in 1 .. Len(table) |-> data @@ table[i]], LAMBDA f : f.id = id)

\* `.update(data).eq("id", id)`: the table after it
UpdateWhereId(table, id, data) ==
  [i \in 1 .. Len(table) |-> IF table[i].id = id THEN data @@ table[i] ELSE table[i]]

RowsWithId_Any(table, id) == table

\* ... and the rows it returns
RowsWithId(table, id) == SelectSeq(table, LAMBDA f : f.id = id)

\* update_food_items: updated_data.  The dict is built in the order written:
\* "expiry_date" is read before calculate_reminder_date fills it in.
updated_data(item, t) ==
  [name |-> item.name, description |-> item.description, category |-> item.category,
   storage_instructions |-> item.storage_instructions,
   quantity |-> item.quantity, unit |-> item.unit,
   expiry_date |-> StoredDate(item.expiry_date),
   shelf_life_days |-> item.shelf_life_days,
   reminder_date |-> Some(timestamp(isoformat(calculate_reminder_date(item, t)))),
   consumed |-> item.consumed, discarded |-> item.discarded]

\* update_item once calculate_reminder_date has run on it
AfterCalculate(item, t) == [item EXCEPT !.expiry_date = Some(ExpiryOrShelfLife(item, t))]

\* update_consume_or_discard_food_items: updated_data
consumed_discarded_data(item) == [consumed |-> item.consumed, discarded |-> item.discarded]

RECURSIVE UpdateLoop_StopAtFailure(_, _, _, _, _, _, _)
UpdateLoop_StopAtFailure(items, data, kept, fails, k, table, acc) ==
  IF k > Len(items)
    THEN [table |-> table, updated_success |-> acc.ok, updated_failed |-> acc.failed]
    ELSE IF k \in fails
      THEN [table |-> table, updated_success |-> acc.ok,
            updated_failed |-> Append(acc.failed, kept[k])]
      ELSE LET t2 == UpdateWhereId(table, items[k].id, data[k]) IN
           UpdateLoop_StopAtFailure(items, data, kept, fails, k + 1, t2,
                                    [acc EXCEPT !.ok = @ \o RowsWithId(t2, items[k].id)])

\* The per-item loop of both update operations: item k is written unless its
\* store call raises (k \in fails); then it goes to the failed list and the
\* loop continues.  data[k] is the k-th updated_data, kept[k] the object the
\* failed list keeps.
RECURSIVE UpdateLoop(_, _, _, _, _, _, _)
UpdateLoop(items, data, kept, fails, k, table, acc) ==
  IF k > Len(items)
    THEN [table |-> table, updated_success |-> acc.ok, updated_failed |-> acc.failed]
    ELSE IF k \in fails
      THEN UpdateLoop(items, data, kept, fails, k + 1, table,
                      [acc EXCEPT !.failed = Append(@, kept[k])])
      ELSE LET t2 == UpdateWhereId(table, items[k].id, data[k]) IN
           UpdateLoop(items, data, kept, fails, k + 1, t2,
                      [acc EXCEPT !.ok = @ \o RowsWithId(t2, items[k].id)])

\* The items of a payload whose store write raises: any of them, once the
\* user lookup let the loop start.
WriteFailures(tid, lookupFails, items) ==
  IF get_user(tid, lookupFails).user = None THEN {{}} ELSE SUBSET (1 .. Len(items))

UpdateResponse(op, tid, payload, fails, r) ==
  Response(op, tid, IF fails = {} THEN "ok" ELSE "write",
           Len(r.updated_failed) = 0, "Food items updated")
    @@ [payload |-> payload, fails |-> fails,
        updated_success |-> r.updated_success, updated_failed |-> r.updated_failed]

UserNotFound(op, tid, lookupFails) ==
  Response(op, tid, IF lookupFails THEN "lookup" ELSE "ok", FALSE, "User not found")
    @@ [updated_success |-> <<>>, updated_failed |-> <<>>]

\* Api.update_food_items
UpdateFoodItems(tid, items, fails, client, lookupFails) ==
  /\ IF client = "raise"
       THEN /\ last' = Raise("update", tid, "client")
            /\ UNCHANGED <<foodItems, supabase>>
       ELSE LET user == get_user(tid, lookupFails).user
                r == UpdateLoop(items,
                                [k \in 1 .. Len(items) |-> updated_data(items[k], now)],
                                [k \in 1 .. Len(items) |-> AfterCalculate(items[k], now)],
                                fails, 1, foodItems, [ok |-> <<>>, failed |-> <<>>])
            IN  /\ supabase' = get_supabase_client(client)
                /\ IF user = None
                     THEN /\ last' = UserNotFound("update", tid, lookupFails)
                          /\ UNCHANGED foodItems
                     ELSE /\ foodItems' = r.table
                          /\ last' = UpdateResponse("update", tid, items, fails, r)
  /\ UNCHANGED <<users, now, starts, restSupabase, photos, clientCalls, cron>>

\* Api.update_consume_or_discard_food_items
UpdateConsumeOrDiscard(tid, items, fails, client, lookupFails) ==
  /\ IF client = "raise"
       THEN /\ last' = Raise("mark", tid, "client")
            /\ UNCHANGED <<foodItems, supabase>>
       ELSE LET user == get_user(tid, lookupFails).user
                r == UpdateLoop(items,
                                [k \in 1 .. Len(items) |-> consumed_discarded_data(items[k])],
                                items, fails, 1, foodItems, [ok |-> <<>>, failed |-> <<>>])
            IN  /\ supabase' = get_supabase_client(client)
                /\ IF user = None
                     THEN /\ last' = UserNotFound("mark", tid, lookupFails)
                          /\ UNCHANGED foodItems
                     ELSE /\ foodItems' = r.table
                          /\ last' = UpdateResponse("mark", tid, items, fails, r)
  /\ UNCHANGED <<users, now, starts, restSupabase, photos, clientCalls, cron>>

\* Api.delete_food_items_for_user: get_user is called without await, so
\* user_response is a coroutine object and `user_response.user` raises
\* AttributeError before any store call.
DeleteFoodItemsForUser(tid, ids) ==
  /\ last' = Raise("delete", tid, "ok")
  /\ UNCHANGED <<users, foodItems, supabase, now, starts, restSupabase, photos, clientCalls, cron>>

\* ------------------------------------------------------ Api: the sweep
Expiring_IgnoreFlags(f, trigger) ==
  /\ f.expiry_date # None
  /\ f.expiry_date[1] < trigger

\* the rows `.eq("consumed", False).eq("discarded", False).lt("expiry_date",
\* trigger)` selects: a null expiry_date is less than nothing
Expiring(f, trigger) ==
  /\ ~f.consumed
  /\ ~f.discarded
  /\ f.expiry_date # None
  /\ f.expiry_date[1] < trigger

next_reminder_NullWhenExpired(f, t) ==
  IF f.expiry_date[1] < t THEN None ELSE Some(timestamp(isoformat(t + NEXT_REMINDER_HOURS)))

\* the reminder_date the sweep writes on a selected row at time t
next_reminder(f, t) == Some(timestamp(isoformat(t + NEXT_REMINDER_HOURS)))

\* the table after the sweep's update
SweepTable(days, t) ==
  [i \in 1 .. Len(foodItems) |->
     IF Expiring(foodItems[i], t + Days(days))
       THEN [foodItems[i] EXCEPT !.reminder_date = next_reminder(foodItems[i], t)]
       ELSE foodItems[i]]

RECURSIVE GroupKeys_PerItem(_, _)
GroupKeys_PerItem(rows, seen) ==
  IF rows = <<>> THEN <<>>
  ELSE <<Head(rows).user_id>> \o GroupKeys_PerItem(Tail(rows), seen)

\* the keys of grouped_food_items, in the order a dict keeps them
RECURSIVE GroupKeys(_, _)
GroupKeys(rows, seen) ==
  IF rows = <<>> THEN <<>>
  ELSE IF Head(rows).user_id \in seen THEN GroupKeys(Tail(rows), seen)
  ELSE <<Head(rows).user_id>> \o GroupKeys(Tail(rows), seen \cup {Head(rows).user_id})

\* timedelta.days of a difference given in hours: the floor of the days
TimedeltaDays(hours) == hours \div 24

\* utils.format_expiry_alert: the status it puts behind the name of one item,
\* as the label and the number of days it prints
expiry_status(f, t) ==
  IF f.expiry_date = None THEN [label |-> "Unknown", days |-> 0]
  ELSE LET days_until_expiry == TimedeltaDays(f.expiry_date[1] - t) - 1 IN
       IF days_until_expiry = 0 THEN [label |-> "expiring today", days |-> 0]
       ELSE IF days_until_expiry < 0 THEN [label |-> "expired on", days |-> 0]
       ELSE [label |-> "expiring in", days |-> days_until_expiry]

\* ... and the lines of the alert, one per item
format_expiry_alert(items, t) ==
  [j \in 1 .. Len(items) |-> [name |-> items[j].name] @@ expiry_status(items[j], t)]

\* What happens to one group of the loop: the telegram id lookup raises, the
\* send raises, Telegram answers with an error status, or the alert arrives.
SendFates == {"ok", "http_error", "raise_lookup", "raise_send"}

PassesFilter_Always(test, chat) == TRUE

\* TEST_USER_TO_SEND_TELEGRAM_TO == 0 or telegram_user_id == TEST_USER_TO_SEND_TELEGRAM_TO
PassesFilter(test, chat) == test = ALL_USERS \/ chat = test

\* The loop over grouped_food_items.  test is TEST_USER_TO_SEND_TELEGRAM_TO.
\* An exception ends the loop; the alerts sent before it stay sent.
RECURSIVE SendLoop(_, _, _, _, _, _)
SendLoop(keys, k, fate, rows, test, sent) ==
  IF k > Len(keys) THEN [ok |-> TRUE, sent |-> sent]
  ELSE
    LET owner == SelectSeq(users, LAMBDA u : u.id = keys[k])
        chat == owner[1].telegram_user_id
        items == SelectSeq(rows, LAMBDA f : f.user_id = keys[k])
    IN  IF fate[k] = "raise_lookup" \/ owner = <<>>
          THEN [ok |-> FALSE, sent |-> sent]
          ELSE IF ~PassesFilter(test, chat)
            THEN SendLoop(keys, k + 1, fate, rows, test, sent)
            ELSE IF fate[k] = "raise_send"
              THEN [ok |-> FALSE, sent |-> sent]
              ELSE SendLoop(keys, k + 1, fate, rows, test,
                            Append(sent, [chat |-> chat, items |-> items,
                                          alert |-> format_expiry_alert(items, now),
                                          delivered |-> fate[k] = "ok"]))

\* grouped_food_items: the selected rows of each key
Grouped(rows) ==
  LET keys == GroupKeys(rows, {}) IN
  [k \in 1 .. Len(keys) |->
     [user_id |-> keys[k], items |-> SelectSeq(rows, LAMBDA f : f.user_id = keys[k])]]

\* the groups a sweep at time t would alert
SweepGroups(days, t) ==
  GroupKeys(SelectSeq(foodItems, LAMBDA f : Expiring(f, t + Days(days))), {})

FETCH_FAILED == "Failed to fetch expiring items - Sync food items failed"
SEND_FAILED == "Unable to send telegram message - Sync food items failed"
SYNC_OK == "Sync food items success - message sent to telegram user"

\* Api.sync_reminder_date_food_items
SyncReminderDate(days, tid, client, dbFails, fate) ==
  /\ IF client = "raise"
       THEN /\ last' = Raise("sweep", tid, "client")
            /\ UNCHANGED <<foodItems, supabase>>
       ELSE /\ supabase' = get_supabase_client(client)
            /\ IF dbFails
                 THEN /\ last' = Response("sweep", tid, "write", FALSE, FETCH_FAILED)
                                   @@ [days |-> days, selected |-> <<>>, groups |-> <<>>,
                                       sent |-> <<>>]
                      /\ UNCHANGED foodItems
                 ELSE LET table == SweepTable(days, now)
                          rows == SelectSeq(table, LAMBDA f : Expiring(f, now + Days(days)))
                          r == SendLoop(GroupKeys(rows, {}), 1, fate, rows, tid, <<>>)
                      IN  /\ foodItems' = table
                          /\ last' = Response("sweep", tid, IF r.ok THEN "ok" ELSE "telegram", r.ok,
                                              IF r.ok THEN SYNC_OK ELSE SEND_FAILED)
                                       @@ [days |-> days, selected |-> rows,
                                           groups |-> Grouped(rows), sent |-> r.sent]
  /\ UNCHANGED <<users, now, starts, restSupabase, photos, clientCalls, cron>>

\* ------------------------------------------------- cron_server: the trigger
\* what requests.get may do: answer 200, answer another status, or raise
GetOutcomes == {200, 500, 0}

Event(ev, n) == [ev |-> ev, n |-> n]

\* delay *= 2
NextDelay_Linear(delay) == delay + 1

NextDelay(delay) == delay * 2

\* The body of the while loop from the answer of requests.get to the branch on
\* attempt == max_retries: a 200 returns, anything else is caught, counted and
\* either reported as the last retry or followed by a sleep.
AfterGet_KeepGoing(c, status) ==
  LET n == c.attempt + 1
      got == Append(c.log, Event("get", status))
  IN  IF n = MAX_RETRIES
        THEN [c EXCEPT !.pc = "loop", !.attempt = n,
                       !.log = Append(got, Event("exhausted", n))]
        ELSE [c EXCEPT !.pc = "sleep", !.attempt = n, !.log = got]

AfterGet(c, status) ==
  LET n == c.attempt + 1
      got == Append(c.log, Event("get", status))
  IN  IF status = 200
        THEN [c EXCEPT !.pc = "returned", !.log = Append(got, Event("success", 0))]
        ELSE IF n = MAX_RETRIES
               THEN [c EXCEPT !.pc = "loop", !.attempt = n,
                              !.log = Append(got, Event("exhausted", n))]
               ELSE [c EXCEPT !.pc = "sleep", !.attempt = n, !.log = got]

\* the scheduler calls make_get_request_with_retry
CronFire ==
  /\ cron.pc \in {"idle", "returned"}
  /\ cron.runs < MaxRuns
  /\ cron' = [pc |-> "loop", attempt |-> 1, delay |-> INITIAL_DELAY,
              runs |-> cron.runs + 1, log |-> <<>>]
  /\ UNCHANGED <<users, foodItems, supabase, now, starts, restSupabase, photos, clientCalls, last>>

\* while attempt < max_retries: requests.get(url)
CronGet ==
  /\ cron.pc = "loop"
  /\ cron.attempt < MAX_RETRIES
  /\ \E status \in GetOutcomes : cron' = AfterGet(cron, status)
  /\ UNCHANGED <<users, foodItems, supabase, now, starts, restSupabase, photos, clientCalls, last>>

\* time.sleep(delay); delay *= 2
CronSleep ==
  /\ cron.pc = "sleep"
  /\ cron' = [cron EXCEPT !.pc = "loop", !.delay = NextDelay(cron.delay),
                          !.log = Append(cron.log, Event("sleep", cron.delay))]
  /\ UNCHANGED <<users, foodItems, supabase, now, starts, restSupabase, photos, clientCalls, last>>

\* the loop condition fails and the function falls off its end
CronReturn ==
  /\ cron.pc = "loop"
  /\ ~(cron.attempt < MAX_RETRIES)
  /\ cron' = [cron EXCEPT !.pc = "returned"]
  /\ UNCHANGED <<users, foodItems, supabase, now, starts, restSupabase, photos, clientCalls, last>>

\* --------------------------------------------------------------- the clock
Tick ==
  /\ now < Days(MaxTicks)
  /\ now' = now + Days(1)
  /\ UNCHANGED <<users, foodItems, supabase, starts, restSupabase, photos, clientCalls, cron, last>>

\* ------------------------------------------------------------ requests
GetUserRequest ==
  \E tid \in ApiChats, client \in ClientOutcomes, dbFails \in BOOLEAN :
    GetUser(tid, client, dbFails)

CreateRequest ==
  \E tid \in ApiChats, items \in Batches(CreateItems), client \in ClientOutcomes,
     db \in DbOutcomes :
    CreateFoodItems(tid, items, client, db)

ProcessImageRequest ==
  \E tid \in ApiChats, llm \in {None, Some(<<>>)} \cup { Some(b) : b \in Batches(LlmItems) },
     client \in ClientOutcomes, db \in DbOutcomes :
    ProcessImage(tid, llm, client, db)

ReadRequest ==
  \E tid \in ApiChats, client \in ClientOutcomes, db \in DbOutcomes :
    ReadFoodItemsForUser(tid, client, db)

ReadByStatusRequest ==
  \E tid \in ApiChats, e \in 0 .. 1, cd \in StatusFlags,
     client \in ClientOutcomes, db \in DbOutcomes :
    ReadFoodItemsForUserByStatus(tid, e, cd[1], cd[2], client, db)

UpdateRequest ==
  \E tid \in ApiChats, items \in Payloads(UpdateItems), client \in ClientOutcomes,
     lookupFails \in BOOLEAN :
    \E fails \in WriteFailures(tid, lookupFails, items) :
      UpdateFoodItems(tid, items, fails, client, lookupFails)

MarkRequest ==
  \E tid \in ApiChats, items \in Payloads(MarkItems), client \in ClientOutcomes,
     lookupFails \in BOOLEAN :
    \E fails \in WriteFailures(tid, lookupFails, items) :
      UpdateConsumeOrDiscard(tid, items, fails, client, lookupFails)

DeleteRequest ==
  \E tid \in ApiChats, ids \in Payloads(<<1, MaxItems>>) :
    DeleteFoodItemsForUser(tid, ids)

SweepRequest ==
  \E days \in SweepDays, tid \in ApiChats \cup {ALL_USERS}, client \in ClientOutcomes,
     dbFails \in BOOLEAN :
    \E fate \in [1 .. (IF dbFails THEN 0 ELSE Len(SweepGroups(days, now))) -> SendFates] :
      SyncReminderDate(days, tid, client, dbFails, fate)

\* The pantry as the bot drives it: photos, edits, marks, reads and sweeps.
NextImage ==
  \/ Tick
  \/ ProcessImageRequest
  \/ ReadRequest
  \/ ReadByStatusRequest
  \/ UpdateRequest
  \/ MarkRequest
  \/ SweepRequest

\* ... and the REST clients, which also create, look up and delete directly.
Next ==
  \/ NextImage
  \/ GetUserRequest
  \/ CreateRequest
  \/ DeleteRequest

Spec == Init /\ [][Next]_vars

SpecImage == Init /\ [][NextImage]_vars

\* A pantry two users share the table for: the rows process_image stored at
\* time 0 of one photo of chat 11 and two photos of chat 12.
SharedPantry ==
  << FoodItemPayloadData(ExtractedPayload(LlmItems[1], 0), 1, RegisteredUsers[1], IMAGE_URL),
     FoodItemPayloadData(ExtractedPayload(LlmItems[1], 0), 2, RegisteredUsers[2], IMAGE_URL),
     FoodItemPayloadData(ExtractedPayload(LlmItems[2], 0), 3, RegisteredUsers[2], IMAGE_URL) >>

InitShared ==
  /\ users = RegisteredUsers
  /\ foodItems = SharedPantry
  /\ supabase = FALSE
  /\ now = 0
  /\ starts = IdleStarts
  /\ photos = IdlePhotos
  /\ restSupabase = FALSE
  /\ clientCalls = IdleClientCalls
  /\ cron = IdleCron
  /\ last = NoRequest

SpecShared == InitShared /\ [][NextImage]_vars

\* The bot alone: /start updates handled concurrently.
NextStart == Start

SpecStart == InitStart /\ [][NextStart]_vars

\* The bot and the REST server it posts photos to; photo updates are handled
\* concurrently.
NextPhoto ==
  \E h \in Photos :
    \/ PhotoLoader(h)
    \/ PhotoUpload(h)
    \/ PhotoPost(h)
    \/ PhotoLlm(h)
    \/ PhotoInsert(h)
    \/ PhotoDeleteLoader(h)
    \/ PhotoSend(h)

SpecPhoto == Init /\ [][NextPhoto]_vars

\* Requests that reach get_supabase_client of one Api while others are in it.
NextClient ==
  \E h \in Callers :
    \/ ClientCheck(h)
    \/ ClientCreate(h)

SpecClient == Init /\ [][NextClient]_vars

\* The cron process alone; the scheduler's thread runs a job it has started
\* until the job returns.
NextCron ==
  \/ CronFire
  \/ CronGet
  \/ CronSleep
  \/ CronReturn

SpecCron == Init /\ [][NextCron]_vars /\ WF_vars(NextCron)

\* ================================================================= claims
\* the operations of the Api that take a telegram_user_id and touch FoodItem
PantryOps == {"create", "read", "read_by_status", "update", "mark", "delete", "sweep"}

\* the request just answered came from a chat that has no User row, and no
\* vendor call raised while it was served
MissingUserRequest ==
  /\ last' # last
  /\ last'.op \in PantryOps
  /\ last'.tid \in Chats
  /\ UserRows(last'.tid) = <<>>
  /\ last'.vendor = "ok"

\* C1: a request whose telegram_user_id matches no User row is answered, by
\* every one of create, read, update, mark, delete and the sweep, with
\* success = false and message "User not found", and changes no FoodItem row.
C1_MissingUserRejected ==
  [][ MissingUserRequest =>
        /\ ~last'.raised
        /\ ~last'.success
        /\ last'.message = "User not found"
        /\ foodItems' = foodItems ]_vars

\* ---------------------------------------------------------------------
UserIds == { users[i].id : i \in 1 .. Len(users) }

\* response l is that of a batch create: _create_food_items ran, called by a
\* client or by process_image with the items of a photo
BatchCreate(l) ==
  /\ ~l.raised
  /\ \/ l.op = "create"
     \/ l.op = "process_image" /\ l.message \in {FOUND, SAVE_FAILED}

\* the rows a create has just written, as the response lists them
Written == IF BatchCreate(last) /\ last.success THEN last.food_items ELSE <<>>

C2_Referenced ==
  /\ \A i \in 1 .. Len(foodItems) : foodItems[i].user_id \in UserIds
  /\ \A k \in 1 .. Len(Written) :
       /\ Written[k].user_id = UserRows(last.tid)[1].id
       /\ Written[k].id \in 1 .. Len(foodItems)
       /\ foodItems[Written[k].id].user_id = Written[k].user_id

C2_NoUserNoRow ==
  ( /\ last' # last
    /\ BatchCreate(last')
    /\ (UserRows(last'.tid) = <<>> \/ last'.vendor = "lookup") )
  => (foodItems' = foodItems /\ ~last'.success)

\* C2: in every reachable state each FoodItem.user_id is the id of a User row;
\* a batch create whose user lookup yields no user writes no FoodItem row, and
\* every row a successful create writes carries the id of the looked-up user.
C2_UserIdReferencesUser == []C2_Referenced /\ [][C2_NoUserNoRow]_vars

\* rows of chat 12 are stored, and a create for chat 13, which has no User
\* row, has just been turned down
C2_Witness ==
  /\ Len(foodItems) > 0
  /\ last.op = "create"
  /\ last.tid = 13
  /\ last.message = "User not found"

\* ---------------------------------------------------------------------
\* the expiry date an item is due at when it is written at time t: its own, or
\* t plus its shelf life
Due(item, t) ==
  IF item.expiry_date # None THEN item.expiry_date[1]
  ELSE IF item.shelf_life_days # None THEN t + 24 * item.shelf_life_days[1]
  ELSE t

\* the ids of the stored rows
Ids == { foodItems[i].id : i \in 1 .. Len(foodItems) }

\* the positions of an update payload whose items the store has just written:
\* the write did not raise and a row has the id
WrittenBy(op) ==
  IF last.op = op /\ ~last.raised /\ last.message = "Food items updated"
    THEN { k \in 1 .. Len(last.payload) : k \notin last.fails /\ last.payload[k].id \in Ids }
    ELSE {}

\* the items of a client's create that has just succeeded
Submitted == IF last.op = "create" /\ last.success THEN 1 .. Len(last.payload) ELSE {}

\* the items of a photo that have just been stored
Extracted == IF last.op = "process_image" /\ last.message = FOUND THEN 1 .. Len(last.llm) ELSE {}

Times == { t \in 0 .. now : t % 24 = 0 }

FiveDaysBefore(f) ==
  /\ f.expiry_date # None
  /\ f.reminder_date = Some(f.expiry_date[1] - 24 * REMINDER_DELTA)
  /\ f.reminder_date = Some(f.expiry_date[1] - 24 * UTILS_REMINDER_DAYS)

\* a sweep at some time t selected row f after its last update
Swept(f) ==
  \E t \in Times, d \in SweepDays :
    /\ f.expiry_date # None
    /\ f.expiry_date[1] < t + 24 * d
    /\ f.reminder_date = Some(t + NEXT_REMINDER_HOURS)

\* row f was last written by an update at some time t that carried no
\* expiry_date
UpdatedWithoutExpiry(f) ==
  \E t \in Times :
    /\ f.expiry_date = None
    /\ f.reminder_date =
         Some(t + 24 * (IF f.shelf_life_days = None THEN 0 ELSE f.shelf_life_days[1])
                - 24 * UTILS_REMINDER_DAYS)

C5_ExpiryPersisted ==
  /\ \A k \in Extracted :
       foodItems[last.food_items[k].id].expiry_date = Some(Due(last.llm[k], last.at))
  /\ \A k \in WrittenBy("update") :
       foodItems[last.payload[k].id].expiry_date = Some(Due(last.payload[k], last.at))

\* ---------------------------------------------------------------------
\* the last request was a reminder sweep whose update of the store went through
SweepDone == last.op = "sweep" /\ ~last.raised /\ last.message # FETCH_FAILED

\* C6 as the specification words it: after a sweep every FoodItem whose
\* expiry_date is earlier than the sweep time has no reminder_date.
C6_ExpiredReminderNull ==
  SweepDone =>
    \A i \in 1 .. Len(foodItems) :
      (foodItems[i].expiry_date # None /\ foodItems[i].expiry_date[1] < last.at)
        => foodItems[i].reminder_date = None

\* C6: after a sweep at time t with days_to_expiry d, whatever became of the
\* alerts, no FoodItem has a null reminder_date, and every FoodItem with
\* consumed = false, discarded = false and expiry_date < t + d days, the
\* expired ones among them, has reminder_date = t + 23 hours.
C6_SweepPostponesReminder ==
  SweepDone =>
    \A i \in 1 .. Len(foodItems) :
      /\ foodItems[i].reminder_date # None
      /\ ( /\ ~foodItems[i].consumed
           /\ ~foodItems[i].discarded
           /\ foodItems[i].expiry_date # None
           /\ foodItems[i].expiry_date[1] < last.at + 24 * last.days )
         => foodItems[i].reminder_date = Some(last.at + NEXT_REMINDER_HOURS)

\* a sweep has just passed over an item that expired before it, and one that
\* is consumed
C6_Witness ==
  /\ SweepDone
  /\ \E i \in 1 .. Len(foodItems) :
       /\ ~foodItems[i].consumed
       /\ ~foodItems[i].discarded
       /\ foodItems[i].expiry_date # None
       /\ foodItems[i].expiry_date[1] < last.at
       /\ foodItems[i].reminder_date = Some(last.at + NEXT_REMINDER_HOURS)
  /\ \E i \in 1 .. Len(foodItems) : foodItems[i].consumed

\* ---------------------------------------------------------------------
\* the last request was an update_food_items that reached its loop
UpdateDone == last.op = "update" /\ ~last.raised /\ last.message = "Food items updated"

\* the ids of a list of items or rows, in order
IdsOf(list) == [k \in 1 .. Len(list) |-> list[k].id]

\* the items of the payload whose write raised, in order
Failing == SelectSeq([k \in 1 .. Len(last.payload) |-> [k |-> k, id |-> last.payload[k].id]],
                     LAMBDA e : e.k \in last.fails)

\* item k of the payload is written and returned: the row with its id holds
\* the values of the item and is in food_items_updated_success
WrittenAndReturned(k) ==
  LET item == last.payload[k] IN
  \E i \in 1 .. Len(foodItems) :
    /\ foodItems[i].id = item.id
    /\ foodItems[i].name = item.name
    /\ foodItems[i].description = item.description
    /\ foodItems[i].category = item.category
    /\ foodItems[i].storage_instructions = item.storage_instructions
    /\ foodItems[i].quantity = item.quantity
    /\ foodItems[i].unit = item.unit
    /\ foodItems[i].shelf_life_days = item.shelf_life_days
    /\ foodItems[i].consumed = item.consumed
    /\ foodItems[i].discarded = item.discarded
    /\ \E j \in 1 .. Len(last.updated_success) : last.updated_success[j] = foodItems[i]

\* C7 as the specification words it: when the write fails for some items of
\* an update, exactly those are in food_items_updated_failed, every other item
\* of the batch is written and returned in food_items_updated_success, and
\* success is false iff food_items_updated_failed is non-empty.
C7_RestSucceed ==
  (UpdateDone /\ last.fails # {}) =>
    /\ IdsOf(last.updated_failed) = IdsOf(Failing)
    /\ \A k \in 1 .. Len(last.payload) : k \notin last.fails => WrittenAndReturned(k)
    /\ last.success = (last.updated_failed = <<>>)

\* C7: after an update_food_items that reached its loop, exactly the items
\* whose write raised are in food_items_updated_failed, in payload order;
\* every other item whose id is that of a stored row is written and returned
\* in food_items_updated_success; an item whose id no row has is in neither
\* list; success is false iff food_items_updated_failed is non-empty.
C7_PartialUpdate ==
  UpdateDone =>
    /\ IdsOf(last.updated_failed) = IdsOf(Failing)
    /\ \A k \in 1 .. Len(last.payload) :
         (k \notin last.fails /\ last.payload[k].id \in Ids) => WrittenAndReturned(k)
    /\ \A k \in 1 .. Len(last.payload) :
         last.payload[k].id \notin Ids =>
           \A j \in 1 .. Len(last.updated_success) :
             last.updated_success[j].id # last.payload[k].id
    /\ last.success = (last.updated_failed = <<>>)

\* the write of the first item raised and the second item was written
C7_Witness ==
  /\ UpdateDone
  /\ last.fails = {1}
  /\ Len(last.payload) = 2
  /\ last.payload[2].id \in Ids
  /\ WrittenAndReturned(2)
  /\ ~last.success

\* ---------------------------------------------------------------------
\* row f carries the values of the submitted item, the image_url of the
\* payload, and neither flag
SameValues(f, item, image_url) ==
  /\ f.name = item.name
  /\ f.description = item.description
  /\ f.category = item.category
  /\ f.storage_instructions = item.storage_instructions
  /\ f.quantity = item.quantity
  /\ f.unit = item.unit
  /\ f.expiry_date = item.expiry_date
  /\ f.shelf_life_days = item.shelf_life_days
  /\ f.reminder_date = Some(item.reminder_date)
  /\ f.image_url = image_url
  /\ ~f.consumed
  /\ ~f.discarded

\* a successful create of a batch is followed at once by a successful read
\* of the same user's food items
CreateThenRead ==
  /\ last.op = "create"
  /\ last.success
  /\ last'.op = "read"
  /\ last'.success
  /\ last'.tid = last.tid

C8_SameValues ==
  CreateThenRead =>
    \A k \in 1 .. Len(last.payload) :
      \E j \in 1 .. Len(last'.food_items) :
        /\ last'.food_items[j].id = last.food_items[k].id
        /\ SameValues(last'.food_items[j], last.payload[k], IMAGE_URL)

FailureMessage(op, v) ==
  CASE op = "get_user" -> EXC
    [] op = "process_image" -> SAVE_FAILED
    [] op = "sweep" /\ v = "write" -> FETCH_FAILED
    [] op = "sweep" /\ v = "telegram" -> SEND_FAILED
    [] op \in {"create", "read", "read_by_status", "update", "mark"} /\ v = "lookup"
         -> "User not found"
    [] op \in {"create", "read", "read_by_status"} /\ v = "write" -> EXC
    [] op \in {"update", "mark"} /\ v = "write" -> "Food items updated"

C10_OneUserRow ==
  (\A h \in Starts : starts[h].lookup # EXC) =>
    \A c \in Chats : Len(UserRows(c)) <= 1

\* ---------------------------------------------------------------------
\* every row of the table is still there after the step
RowsKept ==
  \A i \in 1 .. Len(foodItems) :
    \E j \in 1 .. Len(foodItems') : foodItems'[j].id = foodItems[i].id

\* C11: across any sequence of create, read, update, mark and sweep
\* operations the set of FoodItem rows never shrinks: no step of the Api
\* removes a row (the delete operation, the only one with a delete query,
\* raises before it reaches the store).
C11_RowsNeverShrink == [][RowsKept]_vars

\* a mark has just written a row of a full table
C11_Witness ==
  /\ Len(foodItems) = MaxItems
  /\ last.op = "mark"
  /\ ~last.raised
  /\ Len(last.updated_success) > 0
  /\ foodItems[1].consumed

\* ---------------------------------------------------------------------
\* the groups of the sweep that hold row f
GroupsOf(f) ==
  { k \in 1 .. Len(last.groups) :
      \E j \in 1 .. Len(last.groups[k].items) : last.groups[k].items[j] = f }

\* the selected rows of the user registered under chat c
SelectedOf(c) ==
  SelectSeq(last.selected, LAMBDA f : \E i \in 1 .. Len(users) :
                              users[i].telegram_user_id = c /\ users[i].id = f.user_id)

\* C12: in one reminder sweep each selected item lies in exactly one group,
\* the group of its user_id, and at most one alert is sent per user, which
\* lists exactly that user's selected items.
C12_OneAlertPerUser ==
  SweepDone =>
    /\ \A i \in 1 .. Len(last.selected) : Cardinality(GroupsOf(last.selected[i])) = 1
    /\ \A k \in 1 .. Len(last.groups) :
         /\ \A j \in 1 .. Len(last.groups[k].items) :
              last.groups[k].items[j].user_id = last.groups[k].user_id
         /\ \A k2 \in 1 .. Len(last.groups) :
              last.groups[k2].user_id = last.groups[k].user_id => k2 = k
    /\ \A a \in 1 .. Len(last.sent) :
         /\ last.sent[a].items = SelectedOf(last.sent[a].chat)
         /\ \A b \in 1 .. Len(last.sent) : last.sent[b].chat = last.sent[a].chat => b = a

\* a sweep has alerted two users, one of one item and one of two
C12_Witness ==
  /\ SweepDone
  /\ Len(last.selected) = 3
  /\ Len(last.groups) = 2
  /\ Len(last.sent) = 2
  /\ Len(last.sent[1].items) = 1
  /\ Len(last.sent[2].items) = 2

\* ---------------------------------------------------------------------
\* positions of the GET requests in the log of the current invocation
GetsAt == { i \in 1 .. Len(cron.log) : cron.log[i].ev = "get" }

\* the number of GET requests issued before position i
GetsBefore(i) == Cardinality({ j \in GetsAt : j < i })

\* the sleeps of the current invocation, in order
Sleeps == SelectSeq(cron.log, LAMBDA e : e.ev = "sleep")

\* C13: one invocation of make_get_request_with_retry issues at most 5 GET
\* requests; every GET after the first is a retry, the k-th retry comes right
\* after a sleep of 2^(k-1) seconds, and the sleeps are 1, 2, 4, ... exactly.
C13_DoublingBackoff ==
  /\ Cardinality(GetsAt) <= MAX_RETRIES
  /\ \A k \in 1 .. Len(Sleeps) : Sleeps[k].n = 2 ^ (k - 1)
  /\ \A i \in GetsAt :
       GetsBefore(i) > 0 =>
         /\ cron.log[i - 1].ev = "sleep"
         /\ cron.log[i - 1].n = 2 ^ (GetsBefore(i) - 1)

\* an invocation that has slept three times and retried after each sleep
C13_Witness ==
  /\ Len(Sleeps) = 3
  /\ Sleeps[3].n = 4
  /\ Cardinality(GetsAt) = 4
  /\ cron.log[Len(cron.log)].ev = "exhausted"

\* ---------------------------------------------------------------------
\* positions of the GET requests that were answered 200
OkAt == { i \in GetsAt : cron.log[i].n = 200 }

LastEvent == cron.log[Len(cron.log)].ev

\* a 200 is the last request of its invocation: the function returns at once
ReturnsAfter200 ==
  \A i \in OkAt :
    /\ i = Len(cron.log) - 1
    /\ LastEvent = "success"
    /\ cron.pc = "returned"

\* a returned invocation either succeeded or logged that retries ran out
ReturnedHow ==
  cron.pc = "returned" =>
    \/ OkAt # {} /\ LastEvent = "success"
    \/ OkAt = {} /\ LastEvent = "exhausted"

\* C14: every invocation of make_get_request_with_retry returns; it returns
\* right after the first 200 with no further request, and when every request
\* failed it has logged that the retries are exhausted before it returns.
C14_Terminates ==
  /\ [](ReturnsAfter200 /\ ReturnedHow)
  /\ (cron.pc \in {"loop", "sleep"} ~> cron.pc = "returned")

\* the second invocation returned after every one of its requests failed
C14_Witness ==
  /\ cron.pc = "returned"
  /\ cron.runs = 2
  /\ OkAt = {}
  /\ LastEvent = "exhausted"

\* ---------------------------------------------------------------------
\* the position of event e in the log of handler h, 0 when it did not happen
Pos(h, e) ==
  LET at == { i \in 1 .. Len(photos[h].log) : photos[h].log[i] = e }
  IN  IF at = {} THEN 0 ELSE CHOOSE i \in at : \A j \in at : i <= j

\* in the handling of photo h, b happened only after a had
Before(h, a, b) == Pos(h, b) # 0 => (Pos(h, a) # 0 /\ Pos(h, a) < Pos(h, b))

FoundResult(h) == photos[h].result.text = "Found food items"

\* C15: in the handling of one photo the LLM call returns before
\* _create_food_items is called, the insert answers before a "Found N food
\* items" result exists, and that result is sent to the chat after both.
C15_PhotoOrder ==
  \A h \in Photos :
    /\ Before(h, "llm_call", "llm_return")
    /\ Before(h, "llm_return", "create_call")
    /\ Before(h, "create_call", "insert_ok")
    /\ Before(h, "create_call", "insert_failed")
    /\ FoundResult(h) =>
         /\ Pos(h, "insert_ok") # 0
         /\ photos[h].result.n = Len(photos[h].llm)
         /\ Before(h, "insert_ok", "reply")

\* a photo whose items were stored and whose "Found 2" result reached the chat
C15_Witness ==
  \E h \in Photos :
    /\ photos[h].pc = "done"
    /\ FoundResult(h)
    /\ photos[h].result.n = 2
    /\ Len(foodItems) = 2
    /\ Pos(h, "reply") = Len(photos[h].log)

\* ---------------------------------------------------------------------
\* the last request was a batch request of a registered user whose client
\* and user lookup did not fail
BatchReachedLoop ==
  /\ last.op \in {"mark", "delete"}
  /\ UserRows(last.tid) # <<>>
  /\ last.vendor \notin {"client", "lookup"}

\* C16: update_consume_or_discard_food_items and delete_food_items_for_user
\* go through the whole batch whatever fails: the request is answered, the
\* items whose store call raised are the failed list of the answer, in payload
\* order and once each, and every other item was attempted.
C16_LoopContinues ==
  BatchReachedLoop =>
    /\ ~last.raised
    /\ last.op = "mark" =>
         /\ IdsOf(last.updated_failed) = IdsOf(Failing)
         /\ \A k \in 1 .. Len(last.payload) :
              (k \notin last.fails /\ last.payload[k].id \in Ids) =>
                \E j \in 1 .. Len(last.updated_success) :
                  last.updated_success[j].id = last.payload[k].id

\* ---------------------------------------------------------------------
\* the last request was a read, of either kind, that was answered
ReadDone == last.op \in {"read", "read_by_status"} /\ ~last.raised

\* the ids of the User rows registered under telegram_user_id tid
UserIdsOf(tid) == { users[i].id : i \in { j \in 1 .. Len(users) : users[j].telegram_user_id = tid } }

\* C17: every FoodItem that read_food_items_for_user or
\* read_food_items_for_user_by_status returns is a stored row whose user_id is
\* the id of the User registered under the requested telegram_user_id.
C17_OwnItemsOnly ==
  ReadDone =>
    \A j \in 1 .. Len(last.food_items) :
      /\ last.food_items[j].user_id \in UserIdsOf(last.tid)
      /\ \E i \in 1 .. Len(foodItems) : foodItems[i] = last.food_items[j]

\* chat 12 read its two items while the table also held an item of another user
C17_Witness ==
  /\ ReadDone
  /\ last.tid = 12
  /\ Len(last.food_items) = 2
  /\ \E i \in 1 .. Len(foodItems) : foodItems[i].user_id \notin UserIdsOf(12)

\* ---------------------------------------------------------------------
\* a FoodItem a sweep with parameter days at time t is to handle
Qualifies(f, t, days) ==
  /\ f.consumed = FALSE
  /\ f.discarded = FALSE
  /\ f.expiry_date # None
  /\ f.expiry_date[1] < t + 24 * days

\* the ids of the rows the alerts of the answered sweep list
AlertedIds(resp) ==
  UNION { { resp.sent[k].items[j].id : j \in 1 .. Len(resp.sent[k].items) } :
            k \in 1 .. Len(resp.sent) }

\* this step is a sweep that was answered
SweepStep == last' # last /\ last'.op = "sweep" /\ ~last'.raised

\* C18: a reminder sweep leaves every FoodItem that is consumed, discarded,
\* without expiry_date or expiring at or after now + days_to_expiry exactly as
\* it was and lists it in no alert; of the others it changes reminder_date
\* and nothing else.
C18_SweepFrame ==
  [][ SweepStep =>
        /\ Len(foodItems') = Len(foodItems)
        /\ \A i \in 1 .. Len(foodItems) :
             IF Qualifies(foodItems[i], now, last'.days)
               THEN [foodItems'[i] EXCEPT !.reminder_date = foodItems[i].reminder_date]
                      = foodItems[i]
               ELSE /\ foodItems'[i] = foodItems[i]
                    /\ foodItems[i].id \notin AlertedIds(last') ]_vars

\* a sweep alerted one row and rewrote its reminder_date while the table also
\* held a discarded row and a row that expires after the trigger date
C18_Witness ==
  /\ SweepDone
  /\ Len(last.sent) > 0
  /\ \E i, j, k \in 1 .. Len(foodItems) :
       /\ foodItems[i].id \in AlertedIds(last)
       /\ foodItems[i].reminder_date = Some(last.at + NEXT_REMINDER_HOURS)
       /\ foodItems[j].discarded
       /\ foodItems[j].id \notin AlertedIds(last)
       /\ foodItems[k].expiry_date # None
       /\ foodItems[k].expiry_date[1] >= last.at + 24 * last.days
       /\ ~foodItems[k].consumed /\ ~foodItems[k].discarded
       /\ foodItems[k].reminder_date # Some(last.at + NEXT_REMINDER_HOURS)

\* ---------------------------------------------------------------------
\* the chats the answered sweep was to alert: the users that have selected
\* items and pass the filter on TEST_USER_TO_SEND_TELEGRAM_TO
Recipients ==
  { c \in Chats : /\ SelectedOf(c) # <<>>
                  /\ (last.tid = ALL_USERS \/ last.tid = c) }

\* the chats an alert of the answered sweep arrived in
DeliveredTo == { last.sent[k].chat : k \in { j \in 1 .. Len(last.sent) : last.sent[j].delivered } }

\* C19: a sweep answers success = true only when an alert was delivered to
\* every user that has selected items and passes the recipient filter; a
\* Telegram send that failed makes the answer success = false.
C19_SuccessMeansDelivered ==
  SweepDone =>
    /\ last.success => Recipients \subseteq DeliveredTo
    /\ (\E k \in 1 .. Len(last.sent) : ~last.sent[k].delivered) => ~last.success

\* ---------------------------------------------------------------------
\* the chats send_telegram_message was called for in the answered sweep
SentTo == { last.sent[k].chat : k \in 1 .. Len(last.sent) }

\* the chats of the users that have selected items
ChatsWithSelected == { c \in Chats : SelectedOf(c) # <<>> }

\* the chats of the first n groups of the answered sweep
FirstGroups(n) ==
  { c \in Chats : \E k \in 1 .. n, i \in 1 .. Len(users) :
                    users[i].id = last.groups[k].user_id /\ users[i].telegram_user_id = c }

LlmInputs == {None, Some(<<>>)} \cup { Some(b) : b \in Payloads(LlmItems) }

\* the outcome of process_image called with these inputs, in this step
ProcessImageOutcome(tid, llm, client, db) ==
  LET n == IF llm = None THEN 0 ELSE Len(llm[1])
      saved == /\ Len(foodItems') = Len(foodItems) + n
               /\ SubSeq(foodItems', 1, Len(foodItems)) = foodItems
               /\ \A k \in 1 .. n :
                    /\ foodItems'[Len(foodItems) + k].name = llm[1][k].food_name
                    /\ foodItems'[Len(foodItems) + k] = last'.food_items[k]
  IN  /\ (n = 0) => foodItems' = foodItems
      /\ (llm = None) => ~last'.raised /\ ~last'.success /\ last'.message = LLM_ERROR
      /\ (llm = Some(<<>>)) => ~last'.raised /\ last'.success /\ last'.message = NO_FOOD
      /\ (n > 0 /\ client = "ok" /\ (db # "ok" \/ UserRows(tid) = <<>>)) =>
           /\ ~last'.raised /\ ~last'.success /\ last'.message = SAVE_FAILED
           /\ foodItems' = foodItems
      /\ last'.message = FOUND <=> (n > 0 /\ client = "ok" /\ db = "ok" /\ UserRows(tid) # <<>>)
      /\ last'.message = FOUND => last'.success /\ saved
      /\ last'.success => last'.message \in {NO_FOOD, FOUND}
      /\ ~last'.success => foodItems' = foodItems

Exhausted == Len(cron.log) > 0 /\ LastEvent = "exhausted"

\* C22: an invocation of make_get_request_with_retry whose requests all fail
\* has made exactly max_retries = 5 GET requests when it reports "Max retries
\* reached".
C22_FiveAttempts ==
  Exhausted => (OkAt = {} /\ Cardinality(GetsAt) = MAX_RETRIES)

\* ---------------------------------------------------------------------
\* C23: a reminder sweep invoked with a non-zero telegram_user_id leaves every
\* FoodItem that the user registered under that id does not own as it was.
C23_OnlyOwnItems ==
  [][ (SweepStep /\ last'.tid # ALL_USERS) =>
        \A i \in 1 .. Len(foodItems) :
          foodItems[i].user_id \notin UserIdsOf(last'.tid) =>
            foodItems'[i] = foodItems[i] ]_vars

\* ---------------------------------------------------------------------
\* this step is an update or a mark that was answered
EditStep == last' # last /\ last'.op \in {"update", "mark"} /\ ~last'.raised

\* C24: update_food_items and update_consume_or_discard_food_items requested
\* under one telegram user leave every FoodItem of another user as it was.
C24_OwnItemsOnly ==
  [][ EditStep =>
        \A i \in 1 .. Len(foodItems) :
          foodItems[i].user_id \notin UserIdsOf(last'.tid) =>
            foodItems'[i] = foodItems[i] ]_vars

\* ---------------------------------------------------------------------
\* how many entries of list carry this id
CountId(list, id) == Cardinality({ j \in 1 .. Len(list) : list[j].id = id })

\* item k of the payload of the answered update is in exactly one of the lists
InOneList(k) ==
  CountId(last.updated_success, last.payload[k].id)
    + CountId(last.updated_failed, last.payload[k].id) = 1

\* C25 as the specification words it: every item of the payload is in exactly
\* one of food_items_updated_success and food_items_updated_failed, and
\* success = true means every item of the payload was written.
C25_AllReported ==
  UpdateDone =>
    /\ \A k \in 1 .. Len(last.payload) : InOneList(k)
    /\ last.success => \A k \in 1 .. Len(last.payload) : WrittenAndReturned(k)

\* C25: an item of an update_food_items payload is in exactly one of the two
\* lists when its write raised or its id is the id of a stored row, and in
\* neither when its write did not raise and no row has its id; the lists hold
\* nothing else, and success = true means that no write raised.
C25_ReportedOrAbsent ==
  UpdateDone =>
    /\ \A k \in 1 .. Len(last.payload) :
         IF k \in last.fails \/ last.payload[k].id \in Ids
           THEN InOneList(k)
           ELSE /\ CountId(last.updated_success, last.payload[k].id) = 0
                /\ CountId(last.updated_failed, last.payload[k].id) = 0
    /\ Len(last.updated_success) + Len(last.updated_failed)
         = Cardinality({ k \in 1 .. Len(last.payload) :
                           k \in last.fails \/ last.payload[k].id \in Ids })
    /\ last.success = (last.fails = {})

\* an update of two items answered success = true although no row has the id
\* of the second one
C25_Witness ==
  /\ UpdateDone
  /\ last.success
  /\ Len(last.payload) = 2
  /\ last.payload[2].id \notin Ids
  /\ Len(last.updated_success) = 1

\* ---------------------------------------------------------------------
\* how often event e happened in the handling of photo h
Occurrences(h, e) == Cardinality({ i \in 1 .. Len(photos[h].log) : photos[h].log[i] = e })

\* C26: a photo handler that sent the loader message and has finished has
\* deleted the loader message and sent exactly one reply to the photo.
C26_LoaderDeletedOneReply ==
  \A h \in Photos :
    (photos[h].pc = "done" /\ Pos(h, "loader") # 0) =>
      /\ Occurrences(h, "loader_deleted") = 1
      /\ Occurrences(h, "reply") = 1

\* ---------------------------------------------------------------------
\* C27: a /start handler that has sent the sign-up welcome found no lookup
\* failure, and a User row of its chat is in the table.
C27_WelcomeMeansRegistered ==
  \A h \in Starts :
    (starts[h].pc = "done" /\ starts[h].message = START_MESSAGE_NEW) =>
      /\ starts[h].lookup # EXC
      /\ UserRows(starts[h].chat) # <<>>

\* ---------------------------------------------------------------------
\* row f is among the rows of a sequence
Among(f, rows) == \E j \in 1 .. Len(rows) : rows[j] = f

\* C28: at any instant, for every user and every choice of the consumed and
\* discarded flags, each FoodItem of the user that carries these flags is
\* returned by exactly one of the reads by status with is_expired = 1 and with
\* is_expired = 0.
C28_ExpiredPartition ==
  \A u \in 1 .. Len(users), c \in 0 .. 1, d \in 0 .. 1, i \in 1 .. Len(foodItems) :
    (/\ foodItems[i].user_id = users[u].id
     /\ foodItems[i].consumed = (c = 1)
     /\ foodItems[i].discarded = (d = 1)) =>
      (Among(foodItems[i], StatusRows(foodItems, users[u], 1, c, d, now))
         # Among(foodItems[i], StatusRows(foodItems, users[u], 0, c, d, now)))

\* ---------------------------------------------------------------------
\* line j of alert k of the answered sweep is labelled as C29 says, the sweep
\* having run at time last.at
LabelledRight(k, j) ==
  LET f == last.sent[k].items[j]
      line == last.sent[k].alert[j]
      left == f.expiry_date[1] - last.at
  IN  IF f.expiry_date = None THEN line.label = "Unknown"
      ELSE /\ line.label = "expired on" => left < 0
           /\ line.label = "expiring today" => (0 <= left /\ left < 24)
           /\ line.label = "expiring in" => (left >= 24 /\ line.days = left \div 24)
           /\ line.label \in {"expired on", "expiring today", "expiring in"}

\* C29: in every alert of a sweep an item is labelled "expired on" only if
\* its expiry_date is before the time of the sweep, "expiring today" only if
\* it expires within the next 24 hours, otherwise "expiring in d day(s)" with
\* d the whole days left, and "Unknown" if it has no expiry_date.
C29_AlertLabels ==
  SweepDone =>
    \A k \in 1 .. Len(last.sent) :
      \A j \in 1 .. Len(last.sent[k].items) : LabelledRight(k, j)

\* ---------------------------------------------------------------------
\* the requests get_supabase_client has returned to
Returned == { h \in Callers : clientCalls.callers[h].pc = "returned" }

\* C30: whatever the interleaving of the requests, acreate_client has made at
\* most one client, every request get_supabase_client returned to holds that
\* client, and none of them holds no client.
C30_SingleClient ==
  /\ clientCalls.created <= 1
  /\ \A h \in Returned : clientCalls.callers[h].got # 0
  /\ \A g, h \in Returned : clientCalls.callers[g].got = clientCalls.callers[h].got

====
